---- MODULE Spec2Model ----
(***************************************************************************)
(* The search page of the PubMed Semantic Search frontend                  *)
(* (src/src/components/SearchPage.jsx): the component state, the submit    *)
(* handler handleSearch with its two awaits, the normalization of the      *)
(* response, the expand toggle and the three conditional panels.           *)
(*                                                                         *)
(* Encodings.  A text is a sequence of one-character strings.  A JSON / JS *)
(* value is a record tagged by its type (Undefined, Null, Str, Num, Arr,   *)
(* Obj); a relevance score is held in hundredths (Num(87) is 0.87).  A     *)
(* React state update shows in the state the next event sees: every event  *)
(* handler, and every continuation after an await, is one step.            *)
(***************************************************************************)
EXTENDS Integers, Sequences, FiniteSets, TLC

VARIABLES searchQuery, searchResults, isLoading, mode, useMesh, expandedIds,
          filters, searchMeta, pending, nSent, edits, lastOp

component == <<searchQuery, searchResults, isLoading, mode, useMesh,
               expandedIds, filters>>
vars == <<searchQuery, searchResults, isLoading, mode, useMesh, expandedIds,
          filters, searchMeta, pending, nSent, edits, lastOp>>

----------------------------------------------------------------------------
(* Bounds of the model *)

MaxQueryLen == 1
MaxSubmits == 2
MaxEdits == 2
MaxItems == 2

\* the fixed pagination parameters of the request body
MAX_RESULTS == 25
RETMAX == 200

----------------------------------------------------------------------------
(* JS values *)

Undefined == [t |-> "undefined"]
Null == [t |-> "null"]
Str(s) == [t |-> "string", v |-> s]
Num(n) == [t |-> "number", v |-> n]
Arr(s) == [t |-> "array", v |-> s]
Obj(f) == [t |-> "object", v |-> f]

\* ToBoolean: undefined, null, "", 0 are falsy; arrays and objects are truthy
Truthy(x) ==
  CASE x.t = "undefined" -> FALSE
    [] x.t = "null" -> FALSE
    [] x.t = "string" -> x.v # ""
    [] x.t = "number" -> x.v # 0
    [] OTHER -> TRUE

\* a || b
Or(a, b) == IF Truthy(a) THEN a ELSE b

Nullish(x) == x.t \in {"undefined", "null"}

\* x.k for a value x that is neither null nor undefined
Get(x, k) == IF x.t = "object" /\ k \in DOMAIN x.v THEN x.v[k] ELSE Undefined

\* x?.k
OptGet(x, k) == IF Nullish(x) THEN Undefined ELSE Get(x, k)

\* Array.isArray(x)
IsArray(x) == x.t = "array"

----------------------------------------------------------------------------
(* Texts *)

Chars == {" ", "a"}
Whitespace == {" "}

Texts == UNION {[1..n -> Chars] : n \in 0..MaxQueryLen}

RECURSIVE TrimStart(_)
TrimStart(s) ==
  IF s # <<>> /\ Head(s) \in Whitespace THEN TrimStart(Tail(s)) ELSE s

RECURSIVE TrimEnd(_)
TrimEnd(s) ==
  IF s # <<>> /\ s[Len(s)] \in Whitespace
  THEN TrimEnd(SubSeq(s, 1, Len(s) - 1))
  ELSE s

\* String.prototype.trim
Trim_NoTrim(s) == s
Trim(s) == TrimEnd(TrimStart(s))

----------------------------------------------------------------------------
(* Normalization of a response body (handleSearch, the success branch) *)

RecordKeys == {"title", "authors", "journal", "year", "abstract",
               "mesh_terms", "url_full_text", "url_pubmed"}

ResultKeys == {"id", "title", "authors", "journal", "year", "abstract",
               "relevanceScore", "mesh_terms", "url_full_text", "url_pubmed"}

\* const list = Array.isArray(data) ? data : (data?.results || [])
ListOf_ArrayOnly(data) == IF IsArray(data) THEN data ELSE Arr(<<>>)
ListOf(data) ==
  IF IsArray(data) THEN data ELSE Or(OptGet(data, "results"), Arr(<<>>))

\* the callback of .map: item.record and item.score throw on a null item
MapItem_NoDefaults(item, idx) ==
  LET rec == Get(item, "record") IN
  [id |-> idx + 1,
   title |-> OptGet(rec, "title"),
   authors |-> OptGet(rec, "authors"),
   journal |-> OptGet(rec, "journal"),
   year |-> OptGet(rec, "year"),
   abstract |-> OptGet(rec, "abstract"),
   relevanceScore |-> Get(item, "score"),
   mesh_terms |-> OptGet(rec, "mesh_terms"),
   url_full_text |-> OptGet(rec, "url_full_text"),
   url_pubmed |-> OptGet(rec, "url_pubmed")]
MapItem(item, idx) ==
  LET rec == Get(item, "record") IN
  [id |-> idx + 1,
   title |-> Or(OptGet(rec, "title"), Str("")),
   authors |-> Or(OptGet(rec, "authors"), Str("")),
   journal |-> Or(OptGet(rec, "journal"), Str("")),
   year |-> Or(OptGet(rec, "year"), Str("")),
   abstract |-> Or(OptGet(rec, "abstract"), Str("")),
   relevanceScore |-> Or(Get(item, "score"), Num(0)),
   mesh_terms |-> Or(OptGet(rec, "mesh_terms"), Arr(<<>>)),
   url_full_text |-> Or(OptGet(rec, "url_full_text"), Null),
   url_pubmed |-> Or(OptGet(rec, "url_pubmed"), Null)]

\* (list || []).map(...): a TypeError when the value has no map method or
\* when an item is null or undefined
MapThrows(data) ==
  LET list == Or(ListOf(data), Arr(<<>>)) IN
  \/ ~IsArray(list)
  \/ \E i \in 1..Len(list.v) : Nullish(list.v[i])

Mapped_Reversed(data) ==
  LET list == Or(ListOf(data), Arr(<<>>)) IN
  [i \in 1..Len(list.v) |-> MapItem(list.v[Len(list.v) + 1 - i], i - 1)]
Mapped(data) ==
  LET list == Or(ListOf(data), Arr(<<>>)) IN
  [i \in 1..Len(list.v) |-> MapItem(list.v[i], i - 1)]

\* window.__searchMeta = { total_results: data?.total_results, ... }
MetaOf_TotalOnly(data) ==
  Obj([total_results |-> OptGet(data, "total_results"),
       results_range |-> Undefined])
MetaOf(data) ==
  Obj([total_results |-> OptGet(data, "total_results"),
       results_range |-> OptGet(data, "results_range")])

----------------------------------------------------------------------------
(* Response bodies *)

Sample(k) ==
  CASE k = "year" -> Num(2023)
    [] k = "mesh_terms" -> Arr(<<Str("x")>>)
    [] k = "url_full_text" -> Str("http://ft")
    [] k = "url_pubmed" -> Str("http://pm")
    [] k = "title" -> Str("T")
    [] k = "authors" -> Str("A")
    [] k = "journal" -> Str("J")
    [] OTHER -> Str("...")

\* a record holding exactly the keys K
RecordWith(K) == Obj([k \in K |-> Sample(k)])

\* the README's item: a score and a record without the two urls
ReadmeItem ==
  Obj([score |-> Num(87),
       record |-> RecordWith(RecordKeys \ {"url_full_text", "url_pubmed"})])
FullItem == Obj([score |-> Num(87), record |-> RecordWith(RecordKeys)])
\* every field present and falsy
FalsyItem ==
  Obj([score |-> Num(0),
       record |-> Obj([title |-> Str(""), authors |-> Str(""),
                       journal |-> Str(""), year |-> Num(0),
                       abstract |-> Str(""), mesh_terms |-> Arr(<<>>),
                       url_full_text |-> Str(""), url_pubmed |-> Str("")])])
BareItem == Obj(<<>>)

\* the bodies the page is driven with
UiResponses ==
  { Arr(<<>>),
    Arr(<<ReadmeItem>>),
    Obj([results |-> Arr(<<FullItem, BareItem>>),
         total_results |-> Num(2), results_range |-> Str("1-2")]),
    Obj([results |-> Arr(<<>>), total_results |-> Num(0)]),
    Arr(<<Null>>) }

----------------------------------------------------------------------------
(* The page *)

Modes == {"semantic", "broad", "exactTitle"}
Years == {"", "2023", "2022", "2021", "2020"}
Journals == {"", "nature", "science", "cell", "lancet"}
SortBys == {"relevance", "date", "citations", "journal"}
FilterOptions == [year |-> Years, journal |-> Journals, sortBy |-> SortBys]

NoPending == <<>>

Init ==
  /\ searchQuery = <<>>
  /\ searchResults = <<>>
  /\ isLoading = FALSE
  /\ mode = "semantic"
  /\ useMesh = TRUE
  /\ expandedIds = {}
  /\ filters = [year |-> "", journal |-> "", sortBy |-> "relevance"]
  /\ searchMeta = Undefined
  /\ pending = NoPending
  /\ nSent = 0
  /\ edits = 0
  /\ lastOp = [op |-> "init"]

\* what the three conditional blocks of the JSX render
ShowsResults == Len(searchResults) > 0
ShowsNoResults == Len(searchResults) = 0 /\ ~isLoading /\ searchQuery # <<>>
ShowsLoading == isLoading
SubmitDisabled_Never == FALSE
SubmitDisabled == isLoading

(* input events: an onChange carries a value other than the current one;
   MaxEdits caps the input events of one behaviour *)

SetSearchQuery(v) ==
  /\ edits < MaxEdits
  /\ v # searchQuery
  /\ searchQuery' = v
  /\ edits' = edits + 1
  /\ lastOp' = [op |-> "setSearchQuery"]
  /\ UNCHANGED <<searchResults, isLoading, mode, useMesh, expandedIds,
                 filters, searchMeta, pending, nSent>>

SetFilters(k, v) ==
  /\ edits < MaxEdits
  /\ v # filters[k]
  /\ filters' = [filters EXCEPT ![k] = v]
  /\ edits' = edits + 1
  /\ lastOp' = [op |-> "setFilters"]
  /\ UNCHANGED <<searchQuery, searchResults, isLoading, mode, useMesh,
                 expandedIds, searchMeta, pending, nSent>>

SetMode(v) ==
  /\ edits < MaxEdits
  /\ v # mode
  /\ mode' = v
  /\ edits' = edits + 1
  /\ lastOp' = [op |-> "setMode"]
  /\ UNCHANGED <<searchQuery, searchResults, isLoading, useMesh,
                 expandedIds, filters, searchMeta, pending, nSent>>

SetUseMesh(v) ==
  /\ edits < MaxEdits
  /\ v # useMesh
  /\ useMesh' = v
  /\ edits' = edits + 1
  /\ lastOp' = [op |-> "setUseMesh"]
  /\ UNCHANGED <<searchQuery, searchResults, isLoading, mode, expandedIds,
                 filters, searchMeta, pending, nSent>>

(* handleSearch *)

RequestBody_DefaultMode(q, m, u) ==
  [query |-> q, mode |-> "semantic", use_mesh |-> u,
   max_results |-> MAX_RESULTS, retmax |-> RETMAX]
RequestBody(q, m, u) ==
  [query |-> q, mode |-> m, use_mesh |-> u,
   max_results |-> MAX_RESULTS, retmax |-> RETMAX]

Request(q, m, u) ==
  [method |-> "POST", url |-> "http://localhost:8000/search",
   body |-> RequestBody(q, m, u)]

\* if (!searchQuery.trim()) return;
IsBlankQuery(q) == Trim(q) = <<>>

\* the handler up to its first await: the guard, setIsLoading(true), fetch
\* (MaxSubmits caps the requests of one behaviour; the request in flight is
\* held in pending with its phase, "fetch" or "json", until it settles, and
\* with whether the page that issued it is still mounted)
HandleSearch ==
  IF IsBlankQuery(searchQuery)
  THEN /\ lastOp' = [op |-> "handleSearch", sent |-> FALSE]
       /\ UNCHANGED <<searchQuery, searchResults, isLoading, mode, useMesh,
                      expandedIds, filters, searchMeta, pending, nSent, edits>>
  ELSE /\ nSent < MaxSubmits
       /\ isLoading' = TRUE
       /\ nSent' = nSent + 1
       /\ pending' = [i \in DOMAIN pending \cup {nSent + 1} |->
                        IF i = nSent + 1
                        THEN [phase |-> "fetch", mounted |-> TRUE,
                              request |-> Request(searchQuery, mode, useMesh)]
                        ELSE pending[i]]
       /\ lastOp' = [op |-> "handleSearch", sent |-> TRUE]
       /\ UNCHANGED <<searchQuery, searchResults, mode, useMesh, expandedIds,
                      filters, searchMeta, edits>>

\* The submit event of the form.  It comes from the default button, which is
\* disabled while isLoading, and the browser's validation of the `required`
\* input stops it before the handler when the field is empty.
SubmitForm ==
  /\ ~SubmitDisabled
  /\ IF searchQuery = <<>>
     THEN /\ lastOp' = [op |-> "submitBlocked"]
          /\ UNCHANGED <<searchQuery, searchResults, isLoading, mode,
                         useMesh, expandedIds, filters, searchMeta, pending,
                         nSent, edits>>
     ELSE HandleSearch

(* the continuations of handleSearch *)

Settled(id) == [i \in DOMAIN pending \ {id} |-> pending[i]]

\* a state setter called from the continuation of request id: React drops
\* the update when the page that issued the request has been unmounted
SetBy(id, new, old) == IF pending[id].mounted THEN new ELSE old

\* setSearchResults([]) of the !resp.ok branch
OnNotOk_KeepResults == searchResults
OnNotOk == <<>>

\* setSearchResults([]) of the catch block
OnCatch == <<>>

\* setIsLoading(false) of the finally block
Finally_Skipped == isLoading
Finally == FALSE

\* whether the promise of handleSearch rejects, given that the try block
\* threw: `catch (err)` takes every exception, and neither the catch block
\* nor the finally block throws
Escapes(thrown) == FALSE

\* fetch rejects (network failure): catch, finally
FetchRejects(id) ==
  /\ id \in DOMAIN pending /\ pending[id].phase = "fetch"
  /\ searchResults' = SetBy(id, OnCatch, searchResults)
  /\ isLoading' = SetBy(id, Finally, isLoading)
  /\ pending' = Settled(id)
  /\ lastOp' = [op |-> "fetchRejected", id |-> id,
                hadResults |-> Len(searchResults) > 0,
                propagated |-> Escapes(TRUE)]
  /\ UNCHANGED <<searchQuery, mode, useMesh, expandedIds, filters,
                 searchMeta, nSent, edits>>

\* fetch resolves: a non-2xx status ends the handler, a 2xx status awaits
\* resp.json()
FetchResolves(id, ok) ==
  /\ id \in DOMAIN pending /\ pending[id].phase = "fetch"
  /\ IF ok
     THEN /\ pending' = [pending EXCEPT ![id].phase = "json"]
          /\ UNCHANGED <<searchResults, isLoading>>
     ELSE /\ searchResults' = SetBy(id, OnNotOk, searchResults)
          /\ isLoading' = SetBy(id, Finally, isLoading)
          /\ pending' = Settled(id)
  /\ lastOp' = [op |-> "fetchResolved", id |-> id, ok |-> ok,
                hadResults |-> Len(searchResults) > 0,
                propagated |-> Escapes(FALSE)]
  /\ UNCHANGED <<searchQuery, mode, useMesh, expandedIds, filters,
                 searchMeta, nSent, edits>>

\* resp.json() rejects (the body is not JSON): catch, finally
JsonRejects(id) ==
  /\ id \in DOMAIN pending /\ pending[id].phase = "json"
  /\ searchResults' = SetBy(id, OnCatch, searchResults)
  /\ isLoading' = SetBy(id, Finally, isLoading)
  /\ pending' = Settled(id)
  /\ lastOp' = [op |-> "jsonRejected", id |-> id,
                hadResults |-> Len(searchResults) > 0,
                propagated |-> Escapes(TRUE)]
  /\ UNCHANGED <<searchQuery, mode, useMesh, expandedIds, filters,
                 searchMeta, nSent, edits>>

\* resp.json() resolves with data: normalize, setSearchResults(mapped),
\* window.__searchMeta; a TypeError of the mapping goes to the catch block
JsonResolves(id, data) ==
  /\ id \in DOMAIN pending /\ pending[id].phase = "json"
  /\ IF MapThrows(data)
     THEN /\ searchResults' = SetBy(id, OnCatch, searchResults)
          /\ UNCHANGED searchMeta
     ELSE /\ searchResults' = SetBy(id, Mapped(data), searchResults)
          /\ searchMeta' = MetaOf(data)
  /\ isLoading' = SetBy(id, Finally, isLoading)
  /\ pending' = Settled(id)
  /\ lastOp' = [op |-> "jsonResolved", id |-> id, data |-> data,
                caught |-> MapThrows(data),
                propagated |-> Escapes(MapThrows(data))]
  /\ UNCHANGED <<searchQuery, mode, useMesh, expandedIds, filters, nSent, edits>>

(* the expand toggle of a card *)

Toggle_AddOnly(prev, id) == prev \cup {id}
Toggle(prev, id) == IF id \in prev THEN prev \ {id} ELSE prev \cup {id}

\* searchResults.map((result, index) => <div key={result.id} ...>): the cards
\* from top to bottom
RenderedCards == searchResults

RenderedIds == {searchResults[i].id : i \in 1..Len(searchResults)}

\* style={expandedIds.has(result.id) ? {} : {...clamped to four lines}}
CardExpanded_ByIndex(result) == result.id - 1 \in expandedIds
CardExpanded(result) == result.id \in expandedIds

ToggleExpand(id) ==
  /\ ShowsResults
  /\ id \in RenderedIds
  /\ expandedIds' = Toggle(expandedIds, id)
  /\ lastOp' = [op |-> "toggle", id |-> id, before |-> expandedIds]
  /\ UNCHANGED <<searchQuery, searchResults, isLoading, mode, useMesh,
                 filters, searchMeta, pending, nSent, edits>>

(* the "View on PubMed" button of a card *)

\* disabled={!result.url_pubmed}
PubmedDisabled_Never(result) == FALSE
PubmedDisabled(result) == ~Truthy(result.url_pubmed)

\* the onClick handler: the windows it opens
OnClickPubmed(result) ==
  IF Truthy(result.url_pubmed)
  THEN {[url |-> result.url_pubmed, target |-> "_blank",
         features |-> "noopener,noreferrer"]}
  ELSE {}

\* the user presses the button of the card at position i; a disabled button
\* gets no click event
ViewOnPubmed(i) ==
  /\ ShowsResults
  /\ i \in 1..Len(searchResults)
  /\ lastOp' = [op |-> "viewOnPubmed", index |-> i,
                disabled |-> PubmedDisabled(searchResults[i]),
                opened |-> IF PubmedDisabled(searchResults[i]) THEN {}
                           ELSE OnClickPubmed(searchResults[i])]
  /\ UNCHANGED <<searchQuery, searchResults, isLoading, mode, useMesh,
                 expandedIds, filters, searchMeta, pending, nSent, edits>>

----------------------------------------------------------------------------
(* The page under its events *)

Next ==
  \/ \E v \in Texts : SetSearchQuery(v)
  \/ \E k \in DOMAIN FilterOptions : \E v \in FilterOptions[k] : SetFilters(k, v)
  \/ \E v \in Modes : SetMode(v)
  \/ \E v \in BOOLEAN : SetUseMesh(v)
  \/ SubmitForm
  \/ \E id \in DOMAIN pending : FetchRejects(id)
  \/ \E id \in DOMAIN pending : \E ok \in BOOLEAN : FetchResolves(id, ok)
  \/ \E id \in DOMAIN pending : JsonRejects(id)
  \/ \E id \in DOMAIN pending : \E d \in UiResponses : JsonResolves(id, d)
  \/ \E id \in RenderedIds : ToggleExpand(id)
  \/ \E i \in 1..Len(searchResults) : ViewOnPubmed(i)

\* one mounting of the page
Spec == Init /\ [][Next]_vars

(* the page across mountings *)

\* The user follows a link to "/" and comes back to "/search": the route
\* unmounts the page and mounts a new one, whose state is the initial one.
\* Requests in flight are not aborted and window.__searchMeta is global, so
\* both outlive the page.  (A response that settles while the landing page
\* is shown leaves the same state as one that settles right after the
\* return, so the two navigations are one step.)
Remount ==
  /\ searchQuery' = <<>>
  /\ searchResults' = <<>>
  /\ isLoading' = FALSE
  /\ mode' = "semantic"
  /\ useMesh' = TRUE
  /\ expandedIds' = {}
  /\ filters' = [year |-> "", journal |-> "", sortBy |-> "relevance"]
  /\ pending' = [i \in DOMAIN pending |-> [pending[i] EXCEPT !.mounted = FALSE]]
  /\ lastOp' = [op |-> "remount"]
  /\ UNCHANGED <<searchMeta, nSent, edits>>

AppNext ==
  \/ Next
  \/ Remount

AppSpec == Init /\ [][AppNext]_vars

----------------------------------------------------------------------------
(* Normalization over the response bodies: the page after the submit of     *)
(* "a" whose request got a 2xx status, resp.json() resolving with any body  *)
(* of AllResponses, and the link buttons of the cards it leaves.            *)

\* an item with the given score and record, Undefined standing for absent
ItemOf(score, rec) ==
  Obj([k \in (IF score = Undefined THEN {} ELSE {"score"})
             \cup (IF rec = Undefined THEN {} ELSE {"record"}) |->
         IF k = "score" THEN score ELSE rec])

ScoreChoices == {Undefined, Num(87), Num(0)}
RecordChoices ==
  {Undefined, Null, Get(FalsyItem, "record")}
    \cup {RecordWith(K) : K \in SUBSET RecordKeys}

SingleItems ==
  {ItemOf(sc, rec) : sc \in ScoreChoices, rec \in RecordChoices}
    \cup {Null, Num(5)}
CoreItems == {FullItem, ReadmeItem, BareItem, FalsyItem, Null}

ItemLists ==
  {<<x>> : x \in SingleItems}
    \cup UNION {[1..n -> CoreItems] : n \in 0..MaxItems}

RangeText == <<"1-1", "1-2", "1-3", "1-4">>

\* the three shapes a list of items comes in
BareShape(l) == Arr(l)
WrappedShape(l) == Obj([results |-> Arr(l)])
PagedShape(l) ==
  Obj([results |-> Arr(l), total_results |-> Num(Len(l)),
       results_range |-> IF Len(l) = 0 THEN Str("") ELSE Str(RangeText[Len(l)])])

AllResponses ==
  {BareShape(l) : l \in ItemLists}
    \cup {WrappedShape(l) : l \in ItemLists}
    \cup {PagedShape(l) : l \in ItemLists}
    \cup {Null, Num(5), Str("x"), Obj(<<>>), Obj([total_results |-> Num(0)]),
          Obj([results |-> Null]), Obj([results |-> Num(5)]),
          Obj([results |-> Str("x")])}

NormInit ==
  /\ searchQuery = <<"a">>
  /\ searchResults = <<>>
  /\ isLoading = TRUE
  /\ mode = "semantic"
  /\ useMesh = TRUE
  /\ expandedIds = {}
  /\ filters = [year |-> "", journal |-> "", sortBy |-> "relevance"]
  /\ searchMeta = Undefined
  /\ pending = [i \in {1} |->
                  [phase |-> "json", mounted |-> TRUE,
                   request |-> Request(<<"a">>, "semantic", TRUE)]]
  /\ nSent = 1
  /\ edits = 1
  /\ lastOp = [op |-> "fetchResolved", id |-> 1, ok |-> TRUE,
               hadResults |-> FALSE, propagated |-> FALSE]

NormNext ==
  \/ \E d \in AllResponses : JsonResolves(1, d)
  \/ \E i \in 1..Len(searchResults) : ViewOnPubmed(i)

NormSpec == NormInit /\ [][NormNext]_vars

\* the network settles every request it was handed
NetworkSettles ==
  \E id \in DOMAIN pending :
    \/ FetchRejects(id)
    \/ \E ok \in BOOLEAN : FetchResolves(id, ok)
    \/ JsonRejects(id)
    \/ \E d \in UiResponses : JsonResolves(id, d)

FairSpec == Init /\ [][Next]_vars /\ WF_vars(NetworkSettles)

----------------------------------------------------------------------------
(* Properties *)

AllWhitespace(q) == \A i \in 1..Len(q) : q[i] \in Whitespace

\* C1: a submit with an empty or whitespace-only query text issues no
\* request and leaves the whole component state, and the pagination
\* metadata, as they were.
C1_BlankSubmitChangesNothing ==
  [][(lastOp'.op \in {"handleSearch", "submitBlocked"}
        /\ AllWhitespace(searchQuery))
       => /\ UNCHANGED <<searchQuery, searchResults, isLoading, mode,
                         useMesh, expandedIds, filters, searchMeta>>
          /\ UNCHANGED <<pending, nSent>>]_vars

\* a whitespace-only submit went through the handler while results are held
C1_Witness ==
  /\ lastOp.op = "handleSearch" /\ ~lastOp.sent
  /\ searchQuery # <<>> /\ AllWhitespace(searchQuery)
  /\ Len(searchResults) > 0
  /\ nSent = 1

\* C2: a submit with a query text that is not blank issues exactly one
\* POST /search whose body holds the query text, mode and useMesh of that
\* moment with max_results 25 and retmax 200 and nothing of the filters; no
\* other step issues a request.
C2_OneRequestPerSubmit ==
  [][/\ (lastOp'.op = "handleSearch" /\ ~AllWhitespace(searchQuery))
          => /\ nSent' = nSent + 1
             /\ \E id \in DOMAIN pending' \ DOMAIN pending :
                  /\ DOMAIN pending' = DOMAIN pending \cup {id}
                  /\ \A j \in DOMAIN pending : pending'[j] = pending[j]
                  /\ pending'[id].phase = "fetch"
                  /\ pending'[id].request.method = "POST"
                  /\ pending'[id].request.url = "http://localhost:8000/search"
                  /\ pending'[id].request.body =
                       [query |-> searchQuery, mode |-> mode,
                        use_mesh |-> useMesh, max_results |-> 25,
                        retmax |-> 200]
     /\ lastOp'.op # "handleSearch"
          => /\ nSent' = nSent
             /\ DOMAIN pending' \subseteq DOMAIN pending
             /\ \A j \in DOMAIN pending' :
                  pending'[j].request = pending[j].request]_vars

\* a request went out with a mode other than the default one
C2_Witness ==
  /\ lastOp.op = "handleSearch" /\ lastOp.sent
  /\ mode = "broad"
  /\ \E id \in DOMAIN pending :
       /\ pending[id].request.body.mode = "broad"
       /\ pending[id].request.body.query = <<"a">>

\* C3: when the request ends in a non-2xx status or in a network failure,
\* the result list is empty afterwards, the handler's promise does not
\* reject, and the query text is as it was.
C3_FailureClearsResults ==
  [][(\/ lastOp'.op = "fetchRejected"
      \/ lastOp'.op = "fetchResolved" /\ ~lastOp'.ok)
       => /\ searchResults' = <<>>
          /\ ~lastOp'.propagated
          /\ searchQuery' = searchQuery]_vars

\* a non-2xx status arrived while results of an earlier search were held
C3_Witness ==
  /\ lastOp.op = "fetchResolved" /\ ~lastOp.ok /\ lastOp.hadResults
  /\ searchResults = <<>>
  /\ searchQuery # <<>>

\* C4: whenever loading is true it is false again later, whichever way the
\* request settles.
C4_LoadingClears == isLoading ~> ~isLoading

\* a response whose normalization failed has settled and loading is false
C4_Witness ==
  /\ lastOp.op = "jsonResolved" /\ lastOp.caught
  /\ ~isLoading
  /\ DOMAIN pending = {}

\* what a 2xx response with body data leaves in the result list
ResultsAfter(data) == IF MapThrows(data) THEN OnCatch ELSE Mapped(data)

\* C5: the result list a body leaves is the one the same items leave in the
\* other shape: a bare array and an object's `results` field (with or
\* without pagination fields) normalize alike, field for field.
C5_ShapeInvariant ==
  lastOp.op = "jsonResolved" =>
    LET d == lastOp.data IN
    /\ IsArray(d) =>
         /\ searchResults = ResultsAfter(WrappedShape(d.v))
         /\ searchResults = ResultsAfter(PagedShape(d.v))
    /\ (d.t = "object" /\ "results" \in DOMAIN d.v /\ IsArray(d.v.results)) =>
         searchResults = ResultsAfter(BareShape(d.v.results.v))

\* two items came wrapped in an object and were normalized
C5_Witness ==
  /\ lastOp.op = "jsonResolved"
  /\ lastOp.data = PagedShape(<<FullItem, BareItem>>)
  /\ Len(searchResults) = 2
  /\ searchResults[1].title = Str("T")
  /\ searchResults[2].title = Str("")

\* the items of a body, read off the JSON: the array itself, or the
\* `results` array of an object, or none when the object has no `results`
RawItems(d) ==
  IF d.t = "array" THEN d.v
  ELSE IF "results" \in DOMAIN d.v THEN d.v.results.v ELSE <<>>

WellShaped(d) ==
  /\ \/ d.t = "array"
     \/ d.t = "object" /\ ("results" \in DOMAIN d.v => d.v.results.t = "array")
  /\ \A i \in 1..Len(RawItems(d)) : RawItems(d)[i].t = "object"

\* the field k of the record of an item is absent
Absent(item, k) ==
  \/ "record" \notin DOMAIN item.v
  \/ item.v.record.t # "object"
  \/ k \notin DOMAIN item.v.record.v

DefaultOf(k) ==
  CASE k = "mesh_terms" -> Arr(<<>>)
    [] k \in {"url_full_text", "url_pubmed"} -> Null
    [] OTHER -> Str("")

\* C6: for a body whose items are objects, normalization does not fail,
\* every result has the ten keys, and a field absent from the item (its
\* record or its `results` included) holds its default: "" for the texts
\* and the year, 0 for the score, [] for mesh_terms, null for the two urls.
C6_AbsentFieldsDefault ==
  (lastOp.op = "jsonResolved" /\ WellShaped(lastOp.data)) =>
    LET items == RawItems(lastOp.data) IN
    /\ ~lastOp.caught
    /\ ~lastOp.propagated
    /\ Len(searchResults) = Len(items)
    /\ \A i \in 1..Len(items) :
         /\ DOMAIN searchResults[i] = ResultKeys
         /\ \A k \in RecordKeys :
              Absent(items[i], k) => searchResults[i][k] = DefaultOf(k)
         /\ "score" \notin DOMAIN items[i].v =>
              searchResults[i].relevanceScore = Num(0)

\* the README's response: one item with a score and a record without urls
C6_Witness ==
  /\ lastOp.op = "jsonResolved"
  /\ lastOp.data = Arr(<<ReadmeItem>>)
  /\ Len(searchResults) = 1
  /\ searchResults[1].relevanceScore = Num(87)
  /\ searchResults[1].title = Str("T")
  /\ searchResults[1].mesh_terms = Arr(<<Str("x")>>)
  /\ searchResults[1].url_pubmed = Null

\* C7: with an empty result list and no query submitted yet, none of the
\* three panels is rendered, whatever has been typed.
C7_NothingBeforeFirstSubmit ==
  (searchResults = <<>> /\ nSent = 0) =>
    ~ShowsResults /\ ~ShowsNoResults /\ ~ShowsLoading

\* C8: with an empty result list, loading false and a query submitted, the
\* "no results" panel is rendered.
C8_NoResultsAfterSubmit ==
  (searchResults = <<>> /\ ~isLoading /\ nSent > 0) => ShowsNoResults

\* C9: while loading, the loading panel is rendered and neither the result
\* cards nor the "no results" panel.
C9_LoadingSuppressesPanels ==
  isLoading => ShowsLoading /\ ~ShowsResults /\ ~ShowsNoResults

\* C10: a toggle of an identifier flips the membership of that identifier
\* and of no other, and a second toggle of the same identifier right after
\* gives back the set from before the first.
C10_ToggleFlipsOne ==
  [][/\ lastOp'.op = "toggle" =>
          \A j \in expandedIds \cup expandedIds' \cup 1..MaxItems :
            (j \in expandedIds') <=>
              (IF j = lastOp'.id THEN j \notin expandedIds
                                 ELSE j \in expandedIds)
     /\ (lastOp.op = "toggle" /\ lastOp'.op = "toggle"
           /\ lastOp'.id = lastOp.id)
          => expandedIds' = lastOp.before]_vars

\* an identifier was toggled out of the set while the other one stays in
C10_Witness ==
  /\ lastOp.op = "toggle"
  /\ lastOp.id \in lastOp.before
  /\ lastOp.id \notin expandedIds
  /\ expandedIds # {}

FieldOfBody(d, k) ==
  IF d.t = "object" /\ k \in DOMAIN d.v THEN d.v[k] ELSE Undefined

MetaKeys == {"total_results", "results_range"}

\* C12: a response that was normalized leaves in the pagination side-channel
\* exactly its total_results and results_range (both undefined for a bare
\* array), no result of the list carries either of them, and every other
\* step, a failed search included, leaves the side-channel as it was.
C12_MetaSideChannel ==
  [][IF lastOp'.op = "jsonResolved" /\ ~lastOp'.caught
     THEN /\ searchMeta'.t = "object"
          /\ DOMAIN searchMeta'.v = MetaKeys
          /\ \A k \in MetaKeys :
               /\ searchMeta'.v[k] = FieldOfBody(lastOp'.data, k)
               /\ IsArray(lastOp'.data) => searchMeta'.v[k] = Undefined
               /\ \A i \in 1..Len(searchResults') :
                    k \notin DOMAIN searchResults'[i]
     ELSE searchMeta' = searchMeta]_vars

\* the second search failed after the first one had left a total and a
\* range: the list is empty and the side-channel still holds both
C12_Witness ==
  /\ lastOp.op \in {"fetchRejected", "jsonRejected"}
  /\ lastOp.id = 2
  /\ DOMAIN pending = {}
  /\ searchResults = <<>>
  /\ searchMeta = Obj([total_results |-> Num(2), results_range |-> Str("1-2")])

\* the url_pubmed of a response item as the JSON has it, Undefined when the
\* item has no record or the record has no such field
RawUrlPubmed(item) ==
  IF /\ item.t = "object"
     /\ "record" \in DOMAIN item.v
     /\ item.v.record.t = "object"
     /\ "url_pubmed" \in DOMAIN item.v.record.v
  THEN item.v.record.v.url_pubmed
  ELSE Undefined

\* C13: the "View on PubMed" button of a card is enabled and opens the
\* result's url_pubmed in a new window exactly when that url is present; when
\* it is null (the response item had none, or null, or "") the button is
\* disabled, pressing it opens nothing, and its handler opens nothing either.
\* A press changes nothing of the page.
C13_PubmedLink ==
  [][lastOp'.op = "viewOnPubmed" =>
       LET i == lastOp'.index
           r == searchResults[i]
           present == r.url_pubmed # Null
       IN /\ lastOp'.disabled <=> ~present
          /\ lastOp'.opened =
               IF present
               THEN {[url |-> r.url_pubmed, target |-> "_blank",
                      features |-> "noopener,noreferrer"]}
               ELSE {}
          /\ ~present => OnClickPubmed(r) = {}
          /\ (lastOp.op = "jsonResolved" /\ ~lastOp.caught) =>
               LET raw == RawUrlPubmed(RawItems(lastOp.data)[i])
               IN present <=> raw \notin {Undefined, Null, Str("")}
          /\ UNCHANGED <<searchQuery, searchResults, isLoading, mode,
                         useMesh, expandedIds, filters, searchMeta, pending,
                         nSent, edits>>]_vars

\* both cases in one list: the button of the first card opened its link, and
\* the second card, whose url is null, has a disabled button
C13_Witness ==
  /\ lastOp.op = "viewOnPubmed"
  /\ lastOp.index = 1 /\ ~lastOp.disabled
  /\ lastOp.opened # {}
  /\ Len(searchResults) = 2
  /\ searchResults[1].url_pubmed = Str("http://pm")
  /\ searchResults[2].url_pubmed = Null
  /\ PubmedDisabled(searchResults[2])

\* the field k of the record of a response item that is an object, Undefined
\* when absent
RawField(item, k) ==
  IF Absent(item, k) THEN Undefined ELSE item.v.record.v[k]

RawScore(item) ==
  IF "score" \in DOMAIN item.v THEN item.v.score ELSE Undefined

Falsy == {Undefined, Null, Str(""), Num(0)}

\* C14: a response with n items that was normalized leaves n results in the
\* order of the response: the i-th result has id i and the fields of the
\* i-th item (its default where the item has none); and no step other than
\* the settling of a request, a change of sortBy included, changes the cards
\* or their order.
C14_ServerOrder ==
  [][/\ (lastOp'.op = "jsonResolved" /\ ~lastOp'.caught) =>
          LET items == RawItems(lastOp'.data) IN
          /\ Len(searchResults') = Len(items)
          /\ \A i \in 1..Len(items) :
               /\ searchResults'[i].id = i
               /\ \A k \in RecordKeys :
                    searchResults'[i][k] =
                      IF RawField(items[i], k) \in Falsy
                      THEN DefaultOf(k) ELSE RawField(items[i], k)
               /\ searchResults'[i].relevanceScore =
                    IF RawScore(items[i]) \in Falsy
                    THEN Num(0) ELSE RawScore(items[i])
     /\ lastOp'.op \in {"setSearchQuery", "setFilters", "setMode",
                        "setUseMesh", "handleSearch", "submitBlocked",
                        "toggle", "viewOnPubmed"}
          => RenderedCards' = RenderedCards
     /\ RenderedCards' = searchResults']_vars

\* sortBy was set to "date" over a list of two results, which are still in
\* the order of the response
C14_Witness ==
  /\ lastOp.op = "setFilters"
  /\ filters.sortBy = "date"
  /\ Len(RenderedCards) = 2
  /\ RenderedCards[1].id = 1 /\ RenderedCards[1].title = Str("T")
  /\ RenderedCards[2].id = 2 /\ RenderedCards[2].title = Str("")

\* the step record of a step that ended a request
FinalSettle(op) ==
  \/ op.op \in {"fetchRejected", "jsonRejected", "jsonResolved"}
  \/ op.op = "fetchResolved" /\ ~op.ok

\* C15: when two requests are in flight together, the one that settles
\* first sets loading to false while the other is still in flight, and the
\* result list and the pagination metadata held once both have settled are
\* the ones of the response that settled second, whether it was the first
\* or the second to be issued.
C15_LaterResponseWins ==
  [][/\ (FinalSettle(lastOp') /\ Cardinality(DOMAIN pending) = 2) =>
          /\ Cardinality(DOMAIN pending') = 1
          /\ ~isLoading'
     /\ (/\ lastOp'.op = "jsonResolved" /\ ~lastOp'.caught
         /\ DOMAIN pending = {lastOp'.id}
         /\ \/ lastOp'.id = 1 /\ nSent = 2
            \/ lastOp'.id = 2 /\ FinalSettle(lastOp) /\ lastOp.id = 1) =>
          /\ searchResults' = ResultsAfter(lastOp'.data)
          /\ \A k \in MetaKeys :
               searchMeta'.v[k] = FieldOfBody(lastOp'.data, k)]_vars

\* C16: no step of a search (the submit, blocked or not, and every way its
\* request settles) changes the expanded set; so when the results of a search
\* replace the list, the card at position i is rendered expanded exactly when
\* i was in the set before, without a toggle.
C16_SubmitKeepsExpanded ==
  [][/\ (\/ lastOp'.op \in {"handleSearch", "submitBlocked"}
         \/ lastOp'.op \in {"fetchRejected", "fetchResolved",
                            "jsonRejected", "jsonResolved"})
          => expandedIds' = expandedIds
     /\ (lastOp'.op = "jsonResolved" /\ ~lastOp'.caught) =>
          \A i \in 1..Len(searchResults') :
            CardExpanded(searchResults[i])' <=> i \in expandedIds]_vars

\* the first card was expanded under the first search, and the only card of
\* the second search's list is rendered expanded
C16_Witness ==
  /\ lastOp.op = "jsonResolved" /\ lastOp.id = 2
  /\ lastOp.data = Arr(<<ReadmeItem>>)
  /\ expandedIds = {1}
  /\ Len(searchResults) = 1
  /\ CardExpanded(searchResults[1])

====
